---- MODULE Spec2Model ----
(***************************************************************************)
(* q2unpack (src/src/main.cpp): catalog of named byte ranges built from a  *)
(* directory tree and PAK archives, palette table, PCX run-length decode,  *)
(* WAL base-mip read, skin flood fill, and the per-entry pipeline of main. *)
(*                                                                         *)
(* A name is a sequence of tokens <<dir, base, ext>>; strcmp is equality   *)
(* of such sequences, the suffix tests of main look at the last token and  *)
(* the prefix tests at the first.  A file is described by the bytes that   *)
(* can be read from the entry's offset on: a parsed header, the bytes      *)
(* after the header, and an optional trailing 768-byte palette block.      *)
(***************************************************************************)
EXTENDS Integers, Sequences, FiniteSets, TLC

VARIABLES
    entries,       \* std::vector<fileEntry> entries
    d_8to24table,  \* uint32_t d_8to24table[256]
    pc,            \* where main is: "readDir", "loadPalette", "loop", "done", "failed"
    convert,       \* main's convert flag (FALSE under -nc)
    dirPos,        \* directory items readDir has consumed
    idx,           \* position of main's loop over entries
    outfiles,      \* the output tree
    palWrites,     \* loadPalette calls that wrote d_8to24table
    convCalls,     \* convertPcx and convertWal calls made
    last,          \* the last handler called and how it returned
    dec,           \* what the last convertPcx decode did
    fill,          \* what the last FloodFillSkin did
    wal,           \* what the last convertWal did
    image          \* the indexed image the entry under conversion was encoded
                   \* from, <<>> when the entry was not made by the encoder

vars == <<entries, d_8to24table, pc, convert, dirPos, idx, outfiles,
          palWrites, convCalls, last, dec, fill, wal, image>>

(* ---------------------------------------------------------------------- *)
(* Bounds of the model                                                     *)
(* ---------------------------------------------------------------------- *)
MaxDirItems == 3      \* directory items readDir enumerates in one run
MaxW == 3             \* widest image of the enumerated decoder inputs
MaxPayload == 3       \* longest enumerated compressed payload

(* ---------------------------------------------------------------------- *)
(* Program constants                                                       *)
(* ---------------------------------------------------------------------- *)
PaletteSize == 768            \* byte palette[768]
TableSize == 256              \* d_8to24table[256]
Transparent == 255            \* index 255 is transparent / visited marker
MaxDim == 4096                \* pcx_width >= 4096 is rejected
CopyChunk == 4096             \* copyFile copies in chunks of 4096 bytes
FLOODFILL_FIFO_SIZE == 4096   \* 0x1000
FLOODFILL_FIFO_MASK == FLOODFILL_FIFO_SIZE - 1
PcxHeaderSize == 128          \* sizeof(pcx_t), files.h
MipHeaderSize == 100          \* sizeof(miptex_t), files.h
PackFileSize == 64            \* sizeof(dpackfile_t), files.h
MAX_FILES_IN_PACK == 4096     \* files.h
IDPAKHEADER == "PACK"         \* files.h

Max(a, b) == IF a >= b THEN a ELSE b

Min(a, b) == IF a < b THEN a ELSE b

(* the element of a one-element set *)
Only(S) == CHOOSE v \in S : TRUE

(* C integer division truncates toward zero (b > 0 wherever it is used). *)
CDiv(a, b) == IF a >= 0 THEN a \div b ELSE -((-a) \div b)

(* ---------------------------------------------------------------------- *)
(* Names                                                                   *)
(* ---------------------------------------------------------------------- *)
ColormapName == <<"pics", "colormap", ".pcx">>
UpperColormapName == <<"pics", "COLORMAP", ".pcx">>
SkinName == <<"models", "skin", ".pcx">>
PicName == <<"pics", "a", ".pcx">>
WalName == <<"textures", "w", ".wal">>
TgaName == <<"env", "sky", ".tga">>
TxtName == <<"docs", "readme", ".txt">>

Names == {ColormapName, UpperColormapName, SkinName, PicName, WalName,
          TgaName, TxtName}

(* strtolower on one path component *)
strtolower(tok) == IF tok = "COLORMAP" THEN "colormap" ELSE tok

Ext(name) == name[Len(name)]

(* main's test strncmp(name, "models", 6) == 0 || strncmp(name, "players", 7) == 0 *)
IsSkinName(name) == name[1] \in {"models", "players"}

(* Output paths: splitPath + fname, lower-cased, ".png" over the last 4 chars *)
PngPath(name) == <<strtolower(name[1]), strtolower(name[2]), ".png">>
CopyPath(name) == <<strtolower(name[1]), strtolower(name[2]), strtolower(name[3])>>
PalettePath == <<"pics", "colormap", ".bin">>

(* ---------------------------------------------------------------------- *)
(* Files                                                                   *)
(* ---------------------------------------------------------------------- *)
PcxHdr(x0, y0, x1, y1) ==
    [manufacturer |-> 10, version |-> 5, encoding |-> 1, bits_per_pixel |-> 8,
     xmin |-> x0, ymin |-> y0, xmax |-> x1, ymax |-> y1]

BadPcxHdr == [PcxHdr(0, 0, 0, 0) EXCEPT !.manufacturer = 0]

MipHdr(w, h, o) == [width |-> w, height |-> h, offsets0 |-> o]

NoPalette == [black |-> -2, base |-> <<0, 0, 0>>, last |-> <<0, 0, 0>>]

(* The three bytes of palette entry i of a palette description p. *)
PaletteRGB(p, i) ==
    IF i = Transparent THEN p.last
    ELSE IF i = p.black THEN <<0, 0, 0>>
    ELSE p.base

(* The trailing 768-byte block of a file: 256 RGB triples. *)
PaletteBlock(p) ==
    IF p = NoPalette THEN <<>>
    ELSE [k \in 1..PaletteSize |-> PaletteRGB(p, (k - 1) \div 3)[((k - 1) % 3) + 1]]

(* avail: bytes readable from the entry's offset; body: the bytes after   *)
(* the header; pal: the palette block that follows the body, if any.      *)
PcxFile(hdr, body, p) ==
    [avail |-> PcxHeaderSize + Len(body) + (IF p = NoPalette THEN 0 ELSE PaletteSize),
     pcx |-> hdr, mt |-> MipHdr(0, 0, 0), body |-> body, pal |-> p]

WalFile(m, n) ==
    [avail |-> n, pcx |-> BadPcxHdr, mt |-> m, body |-> <<>>, pal |-> NoPalette]

RawFile(n) == WalFile(MipHdr(0, 0, 0), n)

(* The bytes of a file after its PCX header. *)
RawBytes(file) == file.body \o PaletteBlock(file.pal)

(* ---------------------------------------------------------------------- *)
(* Catalog                                                                 *)
(* ---------------------------------------------------------------------- *)
(* handle stands for the FILE* of the entry: the ordinal of the directory  *)
(* item that opened it.  A loose file has offset 0.                        *)
Entry(name, handle, offset, length, file) ==
    [name |-> name, handle |-> handle, offset |-> offset, length |-> length,
     file |-> file]

RECURSIVE findEntryFrom(_, _, _)
findEntryFrom(es, path, i) ==
    IF i > Len(es) THEN 0
    ELSE IF es[i].name = path THEN i
    ELSE findEntryFrom(es, path, i + 1)

RECURSIVE findEntryBack(_, _, _)
findEntryBack(es, path, i) ==
    IF i < 1 THEN 0
    ELSE IF es[i].name = path THEN i
    ELSE findEntryBack(es, path, i - 1)

(* a lookup that scans from the newest entry *)
findEntryLastWins(path) == findEntryBack(entries, path, Len(entries))

(* findEntry: index of the entry returned, 0 for NULL *)
findEntry(path) == findEntryFrom(entries, path, 1)

(* FS_LoadPAK: the parsed directory, or ok = FALSE for NULL *)
FS_LoadPAK(pak) ==
    LET numFiles == pak.dirlen \div PackFileSize IN
    IF ~pak.openOk THEN [ok |-> FALSE, files |-> <<>>]
    ELSE IF pak.ident # IDPAKHEADER THEN [ok |-> FALSE, files |-> <<>>]
    ELSE IF numFiles > MAX_FILES_IN_PACK \/ numFiles = 0
         THEN [ok |-> FALSE, files |-> <<>>]
    ELSE [ok |-> TRUE, files |-> [i \in 1..numFiles |-> pak.info[i]]]

(* loadPak: one entry per directory record, appended in record order *)
loadPak(es, pak, handle) ==
    LET p == FS_LoadPAK(pak) IN
    IF ~p.ok THEN [ok |-> FALSE, entries |-> es]
    ELSE [ok |-> TRUE,
          entries |-> es \o [i \in 1..Len(p.files) |->
                       Entry(p.files[i].name, handle, p.files[i].offset,
                             p.files[i].size, p.files[i].file)]]

(* readDir's branch for a regular file that is neither .pak nor .dylib *)
addLoose(es, name, handle, file) ==
    Append(es, Entry(name, handle, 0, file.avail, file))

(* ---------------------------------------------------------------------- *)
(* Output sink                                                             *)
(* ---------------------------------------------------------------------- *)
(* outfiles maps an output path to [state, size]; a path outside its      *)
(* domain does not exist.  state is "empty", "partial" or "complete",     *)
(* size the number of pixels or bytes of a complete file.                 *)
PutFile(files, path, state, data) ==
    [q \in (DOMAIN files) \cup {path} |->
        IF q = path THEN [state |-> state, size |-> Len(data)] ELSE files[q]]

(* writePng; io is what the environment does to this call:                *)
(*   "fopen"  fopen fails                 -> false, nothing created       *)
(*   "alloc"  png_create_*_struct fails   -> false, file left empty       *)
(*   "pngerr" libpng longjmps             -> false, file left partial     *)
(*   "ok"                                 -> true, file complete          *)
(* libpng rejects a zero or negative width or height in png_set_IHDR.     *)
writePng(files, path, width, height, data, io) ==
    IF io = "fopen" THEN [ok |-> FALSE, err |-> "write", files |-> files]
    ELSE IF io = "alloc"
         THEN [ok |-> FALSE, err |-> "write", files |-> PutFile(files, path, "empty", <<>>)]
    ELSE IF width <= 0 \/ height <= 0
         THEN [ok |-> FALSE, err |-> "write", files |-> PutFile(files, path, "empty", <<>>)]
    ELSE IF io = "pngerr"
         THEN [ok |-> FALSE, err |-> "write", files |-> PutFile(files, path, "partial", <<>>)]
    ELSE [ok |-> TRUE, err |-> "none", files |-> PutFile(files, path, "complete", data)]

(* copyFile's loop: i bytes copied so far; fread returns what the file    *)
(* still has, at most one chunk; 0 bytes read is a failure.               *)
RECURSIVE copyLoop(_, _, _)
copyLoop(i, length, avail) ==
    IF i >= length THEN [ok |-> TRUE, copied |-> i]
    ELSE LET len == Min(length - i, CopyChunk)
             l == Min(len, avail - i)
         IN IF l <= 0 THEN [ok |-> FALSE, copied |-> i]
            ELSE copyLoop(i + l, length, avail)

(* copyFile; io: "fopen" fopen fails, "fwrite" the first fwrite fails.     *)
copyFile(files, entry, io) ==
    LET path == CopyPath(entry.name)
        c == copyLoop(0, entry.length, entry.file.avail)
    IN IF io = "fopen" THEN [ok |-> FALSE, err |-> "write", files |-> files]
       ELSE IF io = "fwrite" /\ entry.length > 0 /\ entry.file.avail > 0
            THEN [ok |-> FALSE, err |-> "write",
                  files |-> PutFile(files, path, "empty", <<>>)]
       ELSE IF ~c.ok
            THEN [ok |-> FALSE, err |-> "read",
                  files |-> PutFile(files, path,
                                    IF c.copied = 0 THEN "empty" ELSE "partial", <<>>)]
       ELSE [ok |-> TRUE, err |-> "none",
             files |-> PutFile(files, path, "complete", [i \in 1..entry.length |-> 0])]

(* ---------------------------------------------------------------------- *)
(* Palette                                                                 *)
(* ---------------------------------------------------------------------- *)
PcxConstantsOk(h) ==
    h.manufacturer = 10 /\ h.version = 5 /\ h.encoding = 1 /\ h.bits_per_pixel = 8

(* byte at position pos of the entry, pos counted from the entry's start; *)
(* header bytes other than the parsed fields read as 0                    *)
ByteAt(file, pos) ==
    LET k == pos - PcxHeaderSize - Len(file.body)
    IN IF pos < PcxHeaderSize THEN 0
       ELSE IF k < 0 THEN file.body[pos - PcxHeaderSize + 1]
       ELSE PaletteRGB(file.pal, k \div 3)[(k % 3) + 1]

(* A 32-bit word is kept as its four bytes <<bits 0-7, 8-15, 16-23,        *)
(* 24-31>>.  lines 258-267: v = (255 << 24) + (r << 0) + (g << 8) +        *)
(* (b << 16); entry 255 is then masked with 0xffffff, which keeps its      *)
(* colour and clears its top byte                                          *)
BuildWords(palette) ==
    [i \in 0..(TableSize - 1) |->
        LET r == palette[i * 3 + 1]
            g == palette[i * 3 + 2]
            b == palette[i * 3 + 3]
        IN IF i = Transparent THEN <<r, g, b, 0>> ELSE <<r, g, b, 255>>]

(* The 256-word array is kept as the word of entry 1 and the entries that  *)
(* differ from it; TableAt reads entry i.                                  *)
PackTable(words) ==
    [common |-> words[1],
     others |-> [i \in {j \in 0..(TableSize - 1) : words[j] # words[1]} |-> words[i]]]

TableAt(table, i) ==
    IF i \in DOMAIN table.others THEN table.others[i] ELSE table.common

BuildTable(palette) == PackTable(BuildWords(palette))

(* loadPalette; io: "fopen" or "fwrite" fail the output of colormap.bin.   *)
loadPalette(files, table, io) ==
    LET e == findEntry(ColormapName) IN
    IF e = 0 THEN [ok |-> FALSE, err |-> "lookup", table |-> table, wrote |-> FALSE, files |-> files]
    ELSE
    LET entry == entries[e]
        file == entry.file
        start == entry.length - PaletteSize
    IN
    IF file.avail < PcxHeaderSize
    THEN [ok |-> FALSE, err |-> "read", table |-> table, wrote |-> FALSE, files |-> files]
    ELSE IF ~PcxConstantsOk(file.pcx)
    THEN [ok |-> FALSE, err |-> "format", table |-> table, wrote |-> FALSE, files |-> files]
    ELSE IF start < 0 \/ entry.length > file.avail
    THEN [ok |-> FALSE, err |-> "read", table |-> table, wrote |-> FALSE, files |-> files]
    ELSE
    LET palette == IF start >= PcxHeaderSize
                   THEN SubSeq(RawBytes(file), start - PcxHeaderSize + 1,
                               start - PcxHeaderSize + PaletteSize)
                   ELSE [k \in 1..PaletteSize |-> ByteAt(file, start + k - 1)]
        t == Only({BuildTable(bytes) : bytes \in {palette}})
    IN
    IF io = "fopen"
    THEN [ok |-> FALSE, err |-> "write", table |-> t, wrote |-> TRUE, files |-> files]
    ELSE IF io = "fwrite"
    THEN [ok |-> FALSE, err |-> "write", table |-> t, wrote |-> TRUE,
          files |-> PutFile(files, PalettePath, "empty", <<>>)]
    ELSE [ok |-> TRUE, err |-> "none", table |-> t, wrote |-> TRUE,
          files |-> PutFile(files, PalettePath, "complete", palette)]

(* ---------------------------------------------------------------------- *)
(* Flood fill (FloodFillSkin)                                              *)
(* ---------------------------------------------------------------------- *)
(* lines 451-458: first index whose table entry equals (255 << 0), the    *)
(* word with bytes <<255, 0, 0, 0>>; else 0                                *)
findFilledColor(table) ==
    LET hits == {i \in 0..(TableSize - 1) : TableAt(table, i) = <<255, 0, 0, 0>>}
    IN IF hits = {} THEN 0
       ELSE CHOOSE i \in hits : \A j \in hits : i <= j

(* FLOODFILL_STEP on the neighbour at 0-based buffer index p, which has    *)
(* coordinates (nx, ny).  st = [skin, fifo, inpt, outpt, fdc, pending,     *)
(* maxPending]; fifo holds the slots written so far, pending counts the    *)
(* coordinates enqueued and not yet dequeued, maxPending is its maximum.   *)
FLOODFILL_STEP(st, p, nx, ny, fillcolor) ==
    IF st.skin[p + 1] = fillcolor
    THEN [st EXCEPT !.skin[p + 1] = Transparent,
                    !.fifo = (st.inpt :> <<nx, ny>>) @@ st.fifo,
                    !.inpt = (st.inpt + 1) % (FLOODFILL_FIFO_MASK + 1),
                    !.pending = st.pending + 1,
                    !.maxPending = Max(st.maxPending, st.pending + 1)]
    ELSE IF st.skin[p + 1] # Transparent
    THEN [st EXCEPT !.fdc = st.skin[p + 1]]
    ELSE st

(* one pass through the body of the while loop, lines 472-498 *)
floodBody(st, skinwidth, skinheight, fillcolor, filledcolor) ==
    LET x == st.fifo[st.outpt][1]
        y == st.fifo[st.outpt][2]
        p == x + skinwidth * y
        s0 == [st EXCEPT !.fdc = filledcolor,
                         !.outpt = (st.outpt + 1) % (FLOODFILL_FIFO_MASK + 1),
                         !.pending = st.pending - 1]
        s1 == IF x > 0 THEN FLOODFILL_STEP(s0, p - 1, x - 1, y, fillcolor) ELSE s0
        s2 == IF x < skinwidth - 1 THEN FLOODFILL_STEP(s1, p + 1, x + 1, y, fillcolor) ELSE s1
        s3 == IF y > 0 THEN FLOODFILL_STEP(s2, p - skinwidth, x, y - 1, fillcolor) ELSE s2
        s4 == IF y < skinheight - 1
              THEN FLOODFILL_STEP(s3, p + skinwidth, x, y + 1, fillcolor) ELSE s3
    IN Only({[s EXCEPT !.skin[p + 1] = s.fdc] : s \in {s4}})

(* the while loop of lines 470-499, run for at most n passes: the first    *)
(* half of them, then the rest.  Every enqueue turns a fill-colour pixel   *)
(* into 255 and none is turned back, so the loop makes at most             *)
(* skinwidth * skinheight passes before outpt meets inpt.                  *)
RECURSIVE floodLoop(_, _, _, _, _, _)
floodLoop(st, n, skinwidth, skinheight, fillcolor, filledcolor) ==
    IF n = 0 \/ st.outpt = st.inpt THEN st
    ELSE IF n = 1 THEN floodBody(st, skinwidth, skinheight, fillcolor, filledcolor)
    ELSE Only({floodLoop(s, n - n \div 2, skinwidth, skinheight, fillcolor, filledcolor) :
                 s \in {floodLoop(st, n \div 2, skinwidth, skinheight, fillcolor,
                                  filledcolor)}})

(* FloodFillSkin: the repaired buffer, with the two colours it chose and   *)
(* the largest number of coordinates that were pending in the FIFO         *)
FloodFillSkin(skin, skinwidth, skinheight, table) ==
    LET fillcolor == skin[1]
        filledcolor == findFilledColor(table)
    IN IF fillcolor = filledcolor \/ fillcolor = Transparent
       THEN [ran |-> FALSE, fillcolor |-> fillcolor, filledcolor |-> filledcolor,
             skin |-> skin, maxPending |-> 0]
       ELSE LET st == floodLoop([skin |-> skin, fifo |-> (0 :> <<0, 0>>), inpt |-> 1,
                                 outpt |-> 0, fdc |-> filledcolor, pending |-> 1,
                                 maxPending |-> 1],
                                skinwidth * skinheight, skinwidth, skinheight,
                                fillcolor, filledcolor)
            IN [ran |-> TRUE, fillcolor |-> fillcolor, filledcolor |-> filledcolor,
                skin |-> st.skin, maxPending |-> st.maxPending]

(* ---------------------------------------------------------------------- *)
(* PCX decode (convertPcx)                                                 *)
(* ---------------------------------------------------------------------- *)
(* a test of the top bit alone, dataByte & 0x80 *)
IsRunTopBit(dataByte) == (dataByte \div 128) = 1

(* (dataByte & 0xC0) == 0xC0 *)
IsRun(dataByte) == (dataByte \div 64) = 3

(* dataByte & 0x3F *)
RunCount(dataByte) == dataByte % 64

(* *raw++ at 0-based position r; past the end of raw_b the byte read is    *)
(* whatever the heap holds there (junk)                                    *)
ReadRaw(raw, r, junk) == IF r < Len(raw) THEN raw[r + 1] ELSE junk

(* while (runLength-- > 0) pix[x++] = dataByte: the 0-based buffer indices *)
(* lo..hi receive v; the part of the run past the end of the buffer is not *)
(* stored                                                                  *)
writeRun(out, lo, hi, v) ==
    LET n == Len(out)
        a == Min(lo, n)
        b == Min(hi + 1, n)
    IN IF hi < lo THEN out
       ELSE SubSeq(out, 1, a) \o [k \in 1..(b - a) |-> v] \o SubSeq(out, b + 1, n)

(* lines 541-554.  d = [out, r, nWrites, rowCross, oobWrite, oobRead]:     *)
(* out is the full_size output buffer (-1 = not yet written), r the number *)
(* of payload bytes consumed; writes past the buffer are recorded, not     *)
(* stored.                                                                 *)
RECURSIVE decodeLoop(_, _, _, _, _, _, _)
decodeLoop(d, y, x, pcx_width, pcx_height, raw, junk) ==
    IF y > pcx_height THEN d
    ELSE IF x > pcx_width THEN decodeLoop(d, y + 1, 0, pcx_width, pcx_height, raw, junk)
    ELSE
    LET b0 == ReadRaw(raw, d.r, junk)
        run == IsRun(b0)
        runLength == IF run THEN RunCount(b0) ELSE 1
        dataByte == IF run THEN ReadRaw(raw, d.r + 1, junk) ELSE b0
        lo == y * (pcx_width + 1) + x
        hi == lo + runLength - 1
        d1 == [out |-> writeRun(d.out, lo, hi, dataByte),
               r |-> d.r + (IF run THEN 2 ELSE 1),
               nWrites |-> d.nWrites + runLength,
               rowCross |-> d.rowCross \/ (x + runLength - 1 > pcx_width),
               oobWrite |-> d.oobWrite \/ (runLength > 0 /\ hi >= Len(d.out)),
               oobRead |-> d.oobRead \/ d.r >= Len(raw)
                              \/ (run /\ d.r + 1 >= Len(raw))]
    IN decodeLoop(d1, y, x + runLength, pcx_width, pcx_height, raw, junk)

(* lines 520-522 *)
PcxHeaderOk(h) ==
    /\ PcxConstantsOk(h)
    /\ ~(h.xmax - h.xmin >= MaxDim)
    /\ ~(h.ymax - h.ymin >= MaxDim)

(* out[i] = d_8to24table[out1[i]] *)
Colorize(out1, table) == [i \in 1..Len(out1) |-> TableAt(table, out1[i])]

NoDec == [accepted |-> FALSE, width |-> 0, height |-> 0, out |-> <<>>, r |-> 0,
          rawLen |-> 0, nWrites |-> 0, rowCross |-> FALSE, oobWrite |-> FALSE,
          oobRead |-> FALSE]

NoFill == [called |-> FALSE, ran |-> FALSE, fillcolor |-> 0, filledcolor |-> 0,
           width |-> 0, height |-> 0, before |-> <<>>, after |-> <<>>, maxPending |-> 0]

(* convertPcx, lines 510-555: read and validate the header, read the       *)
(* payload, run the decode loop.  junk is the byte a read past the payload *)
(* returns.                                                                *)
pcxDecode(entry, junk) ==
    LET file == entry.file
        pcx == file.pcx
        pcx_width == pcx.xmax - pcx.xmin
        pcx_height == pcx.ymax - pcx.ymin
        datalen == entry.length - PcxHeaderSize
        full_size == (pcx_height + 1) * (pcx_width + 1)
    IN
    IF file.avail < PcxHeaderSize THEN [err |-> "read", dec |-> NoDec]
    ELSE IF ~PcxHeaderOk(pcx) THEN [err |-> "format", dec |-> NoDec]
    ELSE IF datalen <= 0 \/ entry.length > file.avail
    THEN [err |-> "read",
          dec |-> [NoDec EXCEPT !.accepted = TRUE, !.width = pcx_width + 1,
                                !.height = pcx_height + 1]]
    ELSE
    LET raw == SubSeq(RawBytes(file), 1, datalen)
        d == decodeLoop([out |-> [i \in 1..full_size |-> -1], r |-> 0, nWrites |-> 0,
                         rowCross |-> FALSE, oobWrite |-> FALSE, oobRead |-> FALSE],
                        0, 0, pcx_width, pcx_height, raw, junk)
    IN [err |-> "none",
        dec |-> [accepted |-> TRUE, width |-> pcx_width + 1, height |-> pcx_height + 1,
                 out |-> d.out, r |-> d.r, rawLen |-> datalen, nWrites |-> d.nWrites,
                 rowCross |-> d.rowCross, oobWrite |-> d.oobWrite,
                 oobRead |-> d.oobRead]]

(* convertPcx, lines 557-559: FloodFillSkin on the decoded buffer of a skin *)
pcxFill(d, isSkin, table) ==
    IF isSkin /\ d.width * d.height > 0
    THEN LET f == FloodFillSkin(d.out, d.width, d.height, table)
         IN [called |-> TRUE, ran |-> f.ran, fillcolor |-> f.fillcolor,
             filledcolor |-> f.filledcolor, width |-> d.width, height |-> d.height,
             before |-> d.out, after |-> f.skin, maxPending |-> f.maxPending]
    ELSE [NoFill EXCEPT !.after = d.out]

(* convertPcx, lines 561-573: colorize through the table and writePng *)
pcxWrite(files, entry, d, f, table, io) ==
    writePng(files, PngPath(entry.name), d.width, d.height, Colorize(f.after, table), io)

(* ---------------------------------------------------------------------- *)
(* WAL base mip (convertWal)                                               *)
(* ---------------------------------------------------------------------- *)
(* the size test without the offset: (entry.length / height) < width *)
MipHeaderOkNoOffset(mt, length) ==
    ~(\/ mt.offsets0 <= 0
      \/ mt.width <= 0
      \/ mt.height <= 0
      \/ CDiv(length, mt.height) < mt.width)

(* lines 593-594 *)
MipHeaderOk(mt, length) ==
    ~(\/ mt.offsets0 <= 0
      \/ mt.width <= 0
      \/ mt.height <= 0
      \/ CDiv(length - mt.offsets0, mt.height) < mt.width)

(* bytes of a WAL file the model does not describe read as 0 *)
WalByte(file, pos) ==
    IF pos >= MipHeaderSize /\ pos - MipHeaderSize < Len(file.body)
    THEN file.body[pos - MipHeaderSize + 1] ELSE 0

NoWal == [called |-> FALSE, hdr |-> FALSE, accepted |-> FALSE, from |-> 0, count |-> 0, length |-> 0,
          mt |-> MipHdr(0, 0, 0)]

(* convertWal; io is the outcome of writePng *)
convertWal(files, entry, table, io) ==
    LET file == entry.file
        mt == file.mt
        fullsize == mt.width * mt.height
        called == [NoWal EXCEPT !.called = TRUE, !.length = entry.length, !.mt = mt]
    IN
    IF file.avail < MipHeaderSize
    THEN [ok |-> FALSE, err |-> "read", files |-> files, wal |-> called]
    ELSE IF ~MipHeaderOk(mt, entry.length)
    THEN [ok |-> FALSE, err |-> "format", files |-> files,
          wal |-> [called EXCEPT !.hdr = TRUE]]
    ELSE
    LET acc == [called EXCEPT !.hdr = TRUE, !.accepted = TRUE, !.from = mt.offsets0, !.count = fullsize]
    IN
    IF mt.offsets0 + fullsize > file.avail
    THEN [ok |-> FALSE, err |-> "read", files |-> files, wal |-> acc]
    ELSE
    LET raw == [i \in 1..fullsize |-> WalByte(file, mt.offsets0 + i - 1)]
        w == writePng(files, PngPath(entry.name), mt.width, mt.height,
                      Colorize(raw, table), io)
    IN [ok |-> w.ok, err |-> w.err, files |-> w.files, wal |-> acc]

(* ---------------------------------------------------------------------- *)
(* RLE encoder of the format (the inverse the decoder is specified        *)
(* against): runs of at most 63 within one row; a run of 1 of a value     *)
(* below 0xC0 is a literal byte, anything else is <<0xC0 + count, value>>. *)
(* ---------------------------------------------------------------------- *)
MaxRun == 63

RECURSIVE runAt(_, _, _)
runAt(row, i, n) ==
    IF n < MaxRun /\ i + n <= Len(row) /\ row[i + n] = row[i]
    THEN runAt(row, i, n + 1) ELSE n

RECURSIVE encodeRow(_, _)
encodeRow(row, i) ==
    IF i > Len(row) THEN <<>>
    ELSE LET n == runAt(row, i, 1)
         IN (IF n = 1 /\ row[i] < 192 THEN <<row[i]>> ELSE <<192 + n, row[i]>>)
            \o encodeRow(row, i + n)

RECURSIVE encodeRows(_, _, _, _)
encodeRows(pixels, w, h, y) ==
    IF y >= h THEN <<>>
    ELSE encodeRow(SubSeq(pixels, y * w + 1, y * w + w), 1)
         \o encodeRows(pixels, w, h, y + 1)

Encode(pixels, w, h) == encodeRows(pixels, w, h, 0)

(* ---------------------------------------------------------------------- *)
(* The directory tree of a run: the items readDir can meet                 *)
(* ---------------------------------------------------------------------- *)
StdPal == [black |-> 0, base |-> <<8, 8, 8>>, last |-> <<255, 0, 255>>]
RedPal == [black |-> 9, base |-> <<8, 8, 8>>, last |-> <<255, 0, 0>>]

ColormapFile(p) == PcxFile(PcxHdr(0, 0, 1, 0), <<1, 2>>, p)
SkinFile == PcxFile(PcxHdr(0, 0, 2, 0), <<7, 9, 7>>, NoPalette)
SkinFile2 == PcxFile(PcxHdr(0, 0, 1, 1), <<194, 7, 7, 9>>, NoPalette)
PicFile == PcxFile(PcxHdr(0, 0, 1, 0), <<194, 5>>, NoPalette)
WalOkFile == WalFile(MipHdr(2, 1, 100), 102)
WalBadFile == WalFile(MipHdr(2, 1, 0), 102)

LooseItem(name, file) ==
    [type |-> "file", name |-> name, file |-> file, openOk |-> TRUE,
     ident |-> "", dirlen |-> 0, info |-> <<>>]

PakItem(open, ident, dirlen, info) ==
    [type |-> "pak", name |-> <<>>, file |-> RawFile(0), openOk |-> open,
     ident |-> ident, dirlen |-> dirlen, info |-> info]

OtherItem(type) ==
    [type |-> type, name |-> <<>>, file |-> RawFile(0), openOk |-> TRUE,
     ident |-> "", dirlen |-> 0, info |-> <<>>]

PakRec(name, offset, size, file) ==
    [name |-> name, offset |-> offset, size |-> size, file |-> file]

DirItems ==
    { LooseItem(ColormapName, ColormapFile(StdPal)),
      LooseItem(UpperColormapName, ColormapFile(RedPal)),
      LooseItem(SkinName, SkinFile),
      LooseItem(PicName, PicFile),
      LooseItem(WalName, WalOkFile),
      LooseItem(TgaName, RawFile(3)),
      LooseItem(TxtName, RawFile(5)),
      PakItem(TRUE, IDPAKHEADER, 2 * PackFileSize,
              << PakRec(ColormapName, 12, ColormapFile(RedPal).avail, ColormapFile(RedPal)),
                 PakRec(SkinName, 900, SkinFile2.avail, SkinFile2) >>),
      PakItem(TRUE, IDPAKHEADER, 2 * PackFileSize + 1,
              << PakRec(TxtName, 12, 9, RawFile(5)),
                 PakRec(WalName, 21, 102, WalBadFile) >>),
      PakItem(TRUE, "JUNK", PackFileSize, <<>>),
      PakItem(TRUE, IDPAKHEADER, PackFileSize - 1, <<>>),
      PakItem(TRUE, IDPAKHEADER, (MAX_FILES_IN_PACK + 1) * PackFileSize, <<>>),
      OtherItem("dylib"),
      OtherItem("other") }

(* ---------------------------------------------------------------------- *)
(* main                                                                    *)
(* ---------------------------------------------------------------------- *)
NoLast == [op |-> "none", idx |-> 0, name |-> <<>>, ok |-> TRUE, err |-> "none"]

Init ==
    /\ entries = <<>>
    /\ d_8to24table = PackTable([i \in 0..(TableSize - 1) |-> <<0, 0, 0, 0>>])
    /\ pc = "readDir"
    /\ convert \in BOOLEAN
    /\ dirPos = 0
    /\ idx = 0
    /\ outfiles = <<>>
    /\ palWrites = 0
    /\ convCalls = 0
    /\ last = NoLast
    /\ dec = NoDec
    /\ fill = NoFill
    /\ wal = NoWal
    /\ image = <<>>

(* readDir, regular file that is neither .pak nor .dylib (lines 194-205);  *)
(* a directory holds a path once, so a loose name is met once              *)
ReadDirFile ==
    /\ pc = "readDir"
    /\ dirPos < MaxDirItems
    /\ \E item \in DirItems :
         /\ item.type = "file"
         /\ ~\E i \in 1..Len(entries) :
               entries[i].name = item.name /\ entries[i].offset = 0
         /\ entries' = addLoose(entries, item.name, dirPos + 1, item.file)
    /\ dirPos' = dirPos + 1
    /\ UNCHANGED <<image, d_8to24table, pc, convert, idx, outfiles, palWrites, convCalls,
                   last, dec, fill, wal>>

(* readDir, ".pak" file (lines 187-191): loadPak, and on failure readDir   *)
(* returns false and main returns 1                                        *)
ReadDirPak ==
    /\ pc = "readDir"
    /\ dirPos < MaxDirItems
    /\ \E item \in DirItems :
         /\ item.type = "pak"
         /\ \E r \in {loadPak(entries, item, dirPos + 1)} :
               /\ entries' = r.entries
               /\ pc' = IF r.ok THEN "readDir" ELSE "failed"
               /\ last' = [op |-> "loadPak", idx |-> 0, name |-> <<>>, ok |-> r.ok,
                           err |-> IF r.ok THEN "none" ELSE "format"]
    /\ dirPos' = dirPos + 1
    /\ UNCHANGED <<image, d_8to24table, convert, idx, outfiles, palWrites, convCalls,
                   dec, fill, wal>>

(* readDir, ".dylib" file or an entry that is neither file nor directory   *)
ReadDirIgnored ==
    /\ pc = "readDir"
    /\ dirPos < MaxDirItems
    /\ \E item \in DirItems : item.type \in {"dylib", "other"}
    /\ dirPos' = dirPos + 1
    /\ UNCHANGED <<image, entries, d_8to24table, pc, convert, idx, outfiles, palWrites,
                   convCalls, last, dec, fill, wal>>

(* readDir returns true (line 657-661) *)
ReadDirDone ==
    /\ pc = "readDir"
    /\ pc' = IF convert THEN "loadPalette" ELSE "loop"
    /\ idx' = 1
    /\ UNCHANGED <<image, entries, d_8to24table, convert, dirPos, outfiles, palWrites,
                   convCalls, last, dec, fill, wal>>

(* main going on to the loop whatever loadPalette returned *)
LoadPaletteUnchecked ==
    /\ pc = "loadPalette"
    /\ \E io \in {"ok", "fopen", "fwrite"} :
         \E r \in {loadPalette(outfiles, d_8to24table, io)} :
            /\ d_8to24table' = r.table
            /\ outfiles' = r.files
            /\ palWrites' = palWrites + (IF r.wrote THEN 1 ELSE 0)
            /\ pc' = "loop"
            /\ last' = [op |-> "loadPalette", idx |-> findEntry(ColormapName),
                        name |-> ColormapName, ok |-> r.ok, err |-> r.err]
    /\ UNCHANGED <<image, entries, convert, dirPos, idx, convCalls, dec, fill, wal>>

(* line 662: loadPalette("pics/colormap.pcx", picspath, "colormap.bin")    *)
LoadPalette ==
    /\ pc = "loadPalette"
    /\ \E io \in {"ok", "fopen", "fwrite"} :
         \E r \in {loadPalette(outfiles, d_8to24table, io)} :
            /\ d_8to24table' = r.table
            /\ outfiles' = r.files
            /\ palWrites' = palWrites + (IF r.wrote THEN 1 ELSE 0)
            /\ pc' = IF r.ok THEN "loop" ELSE "failed"
            /\ last' = [op |-> "loadPalette", idx |-> findEntry(ColormapName),
                        name |-> ColormapName, ok |-> r.ok, err |-> r.err]
    /\ UNCHANGED <<image, entries, convert, dirPos, idx, convCalls, dec, fill, wal>>

InLoop == pc = "loop" /\ idx >= 1 /\ idx <= Len(entries)

(* line 669: "We already handled this one" *)
SkipColormap ==
    /\ InLoop
    /\ convert
    /\ entries[idx].name = ColormapName
    /\ idx' = idx + 1
    /\ UNCHANGED <<image, entries, d_8to24table, pc, convert, dirPos, outfiles, palWrites,
                   convCalls, last, dec, fill, wal>>

(* lines 670-674 and convertPcx.  io is the environment's part: the        *)
(* outcome of writePng, or "crash" when the decode loop left the payload   *)
(* or the output buffer and the process dies of it.                        *)
ConvertPcx ==
    /\ InLoop
    /\ convert
    /\ entries[idx].name # ColormapName
    /\ Ext(entries[idx].name) = ".pcx"
    /\ \E junk \in {7, 195} :
       \E p \in {pcxDecode(entries[idx], junk)} :
         /\ (junk # 7) => p.dec.oobRead
         /\ dec' = p.dec
         /\ \/ /\ p.err # "none"
               /\ fill' = NoFill
               /\ outfiles' = outfiles
               /\ pc' = "failed"
               /\ idx' = idx
               /\ last' = [op |-> "convertPcx", idx |-> idx, name |-> entries[idx].name,
                           ok |-> FALSE, err |-> p.err]
            \/ /\ p.err = "none"
               /\ p.dec.oobRead \/ p.dec.oobWrite
               /\ fill' = NoFill
               /\ outfiles' = outfiles
               /\ pc' = "failed"
               /\ idx' = idx
               /\ last' = [op |-> "convertPcx", idx |-> idx, name |-> entries[idx].name,
                           ok |-> FALSE, err |-> "crash"]
            \/ /\ p.err = "none"
               /\ \E f \in {pcxFill(p.dec, IsSkinName(entries[idx].name), d_8to24table)} :
                  \E io \in {"ok", "fopen", "alloc", "pngerr"} :
                  \E r \in {pcxWrite(outfiles, entries[idx], p.dec, f, d_8to24table, io)} :
                     /\ fill' = [f EXCEPT !.after = IF f.called THEN f.after ELSE <<>>]
                     /\ outfiles' = r.files
                     /\ pc' = IF r.ok THEN "loop" ELSE "failed"
                     /\ idx' = IF r.ok THEN idx + 1 ELSE idx
                     /\ last' = [op |-> "convertPcx", idx |-> idx,
                                 name |-> entries[idx].name, ok |-> r.ok, err |-> r.err]
    /\ convCalls' = convCalls + 1
    /\ UNCHANGED <<image, entries, d_8to24table, convert, dirPos, palWrites, wal>>

(* lines 675-678 *)
ConvertWal ==
    /\ InLoop
    /\ convert
    /\ Ext(entries[idx].name) = ".wal"
    /\ \E io \in {"ok", "fopen", "alloc", "pngerr"} :
         \E r \in {convertWal(outfiles, entries[idx], d_8to24table, io)} :
            /\ outfiles' = r.files
            /\ wal' = r.wal
            /\ pc' = IF r.ok THEN "loop" ELSE "failed"
            /\ idx' = IF r.ok THEN idx + 1 ELSE idx
            /\ last' = [op |-> "convertWal", idx |-> idx, name |-> entries[idx].name,
                        ok |-> r.ok, err |-> r.err]
    /\ convCalls' = convCalls + 1
    /\ UNCHANGED <<image, entries, d_8to24table, convert, dirPos, palWrites, dec, fill>>

(* lines 679-681: TGA is only reported *)
SkipTga ==
    /\ InLoop
    /\ convert
    /\ Ext(entries[idx].name) = ".tga"
    /\ idx' = idx + 1
    /\ last' = [op |-> "tga", idx |-> idx, name |-> entries[idx].name, ok |-> TRUE,
                err |-> "none"]
    /\ UNCHANGED <<image, entries, d_8to24table, pc, convert, dirPos, outfiles, palWrites,
                   convCalls, dec, fill, wal>>

(* lines 682-692: every other entry, and every entry under -nc, is copied  *)
CopyFile ==
    /\ InLoop
    /\ \/ ~convert
       \/ Ext(entries[idx].name) \notin {".pcx", ".wal", ".tga"}
    /\ \E io \in {"ok", "fopen", "fwrite"} :
         \E r \in {copyFile(outfiles, entries[idx], io)} :
            /\ outfiles' = r.files
            /\ pc' = IF r.ok THEN "loop" ELSE "failed"
            /\ idx' = IF r.ok THEN idx + 1 ELSE idx
            /\ last' = [op |-> "copyFile", idx |-> idx, name |-> entries[idx].name,
                        ok |-> r.ok, err |-> r.err]
    /\ UNCHANGED <<image, entries, d_8to24table, convert, dirPos, palWrites, convCalls,
                   dec, fill, wal>>

(* lines 695-696: entries.clear(); return 0 *)
Finish ==
    /\ pc = "loop"
    /\ idx > Len(entries)
    /\ entries' = <<>>
    /\ pc' = "done"
    /\ UNCHANGED <<image, d_8to24table, convert, dirPos, idx, outfiles, palWrites, convCalls,
                   last, dec, fill, wal>>

Next ==
    \/ ReadDirFile
    \/ ReadDirPak
    \/ ReadDirIgnored
    \/ ReadDirDone
    \/ LoadPalette
    \/ SkipColormap
    \/ ConvertPcx
    \/ ConvertWal
    \/ SkipTga
    \/ CopyFile
    \/ Finish

Spec == Init /\ [][Next]_vars

(* ---------------------------------------------------------------------- *)
(* Catalog claims                                                          *)
(* ---------------------------------------------------------------------- *)
HasName(n) == \E j \in 1..Len(entries) : entries[j].name = n

C2_UniqueNames ==
    \A i, j \in 1..Len(entries) : (i # j) => entries[i].name # entries[j].name

(* ---------------------------------------------------------------------- *)
(* Palette ordering                                                        *)
(* ---------------------------------------------------------------------- *)
PaletteDone ==
    /\ palWrites = 1
    /\ PalettePath \in DOMAIN outfiles
    /\ outfiles[PalettePath].state = "complete"

OutPath(l) ==
    IF l.op = "loadPalette" THEN PalettePath
    ELSE IF l.op = "copyFile" THEN CopyPath(l.name)
    ELSE PngPath(l.name)

(* C9: when copyFile, convertPcx, convertWal or loadPalette fails, no      *)
(* empty or partially written output file of that entry is left behind.    *)
C9_NoPartialOutput ==
    (pc = "failed" /\ last.op \in {"copyFile", "convertPcx", "convertWal", "loadPalette"})
        => ~(/\ OutPath(last) \in DOMAIN outfiles
             /\ outfiles[OutPath(last)].state \in {"empty", "partial"})

(* ---------------------------------------------------------------------- *)
(* Runs that start in main's loop: the catalog holds pics/colormap.pcx and *)
(* one entry e, and loadPalette has built the table from palette pal.      *)
(* ---------------------------------------------------------------------- *)
Loaded(pal, table, e, img) ==
    /\ entries = <<Entry(ColormapName, 1, 0, ColormapFile(pal).avail, ColormapFile(pal)), e>>
    /\ d_8to24table = table
    /\ pc = "loop"
    /\ convert = TRUE
    /\ dirPos = 2
    /\ idx = 1
    /\ outfiles = PutFile(<<>>, PalettePath, "complete", [i \in 1..PaletteSize |-> 0])
    /\ palWrites = 1
    /\ convCalls = 0
    /\ last = [op |-> "loadPalette", idx |-> 1, name |-> ColormapName, ok |-> TRUE,
               err |-> "none"]
    /\ dec = NoDec
    /\ fill = NoFill
    /\ wal = NoWal
    /\ image = img

(* the table loadPalette builds from StdPal *)
StdTable == BuildTable(PaletteBlock(StdPal))

SeqsUpTo(S, n) == UNION {[1..k -> S] : k \in 1..n}

(* a loose file: its length is the size of the file *)
LooseEntry(name, file) == Entry(name, 2, 0, file.avail, file)

(* an archive record whose size field claims more bytes than the archive has *)
TruncatedEntry(name, file, more) == Entry(name, 2, 12, file.avail + more, file)

(* --- PCX decoder inputs: headers and payloads, well-formed or not ------- *)
PayloadBytes == {5, 192, 194, 195}

SmallHeaders ==
    {PcxHdr(x0, 0, x1, y1) : x0 \in {0, 1}, x1 \in 0..(MaxW - 1), y1 \in {0, 1}}
        \cup {BadPcxHdr}

(* one row of n pixels of colour 7, encoded: n \div 63 runs of 63 and one  *)
(* run of the rest                                                         *)
WideRow(n) ==
    LET q == n \div MaxRun
        rest == n % MaxRun
    IN [k \in 1..(2 * q) |-> IF k % 2 = 1 THEN 192 + MaxRun ELSE 7]
       \o (IF rest = 0 THEN <<>> ELSE <<192 + rest, 7>>)

WideFiles ==
    { PcxFile(PcxHdr(0, 0, MaxDim - 2, 0), WideRow(MaxDim - 1), NoPalette),
      PcxFile(PcxHdr(0, 0, MaxDim - 1, 0), WideRow(MaxDim), NoPalette),
      PcxFile(PcxHdr(1, 0, MaxDim, 0), WideRow(MaxDim), NoPalette),
      PcxFile(PcxHdr(0, 0, MaxDim, 0), WideRow(MaxDim + 1), NoPalette),
      PcxFile(PcxHdr(0, 0, 0, MaxDim), <<7>>, NoPalette) }

InitPcx ==
    \/ \E h \in SmallHeaders, body \in SeqsUpTo(PayloadBytes, MaxPayload) :
          Loaded(StdPal, StdTable, LooseEntry(PicName, PcxFile(h, body, NoPalette)), <<>>)
    \/ \E f \in WideFiles : Loaded(StdPal, StdTable, LooseEntry(PicName, f), <<>>)
    \/ Loaded(StdPal, StdTable, TruncatedEntry(PicName,
                  PcxFile(PcxHdr(0, 0, 0, MaxDim - 1), <<7>>, NoPalette), 1), <<>>)

NextPcx == SkipColormap \/ ConvertPcx \/ Finish

SpecPcx == InitPcx /\ [][NextPcx]_vars

(* --- RLE round trip: images run through the encoder --------------------- *)
RlePix == {5, 130, 200}
WideWidth == 70

EncodedFile(pixels, w, h) ==
    PcxFile(PcxHdr(0, 0, w - 1, h - 1), Encode(pixels, w, h), NoPalette)

InitRle ==
    \/ \E w \in 1..MaxW, h \in 1..2 :
          \E pixels \in [1..(w * h) -> RlePix] :
             Loaded(StdPal, StdTable, LooseEntry(PicName, EncodedFile(pixels, w, h)), pixels)
    \/ \E v \in RlePix :
          Loaded(StdPal, StdTable,
                 LooseEntry(PicName, EncodedFile([i \in 1..WideWidth |-> v], WideWidth, 1)),
                 [i \in 1..WideWidth |-> v])

SpecRle == InitRle /\ [][NextPcx]_vars

(* --- skins: palettes and images for FloodFillSkin ----------------------- *)
SkinPix == {0, 7, 9, 255}

SkinPalettes ==
    {[black |-> k, base |-> <<8, 8, 8>>, last |-> l] :
        k \in {-1, 0, 9}, l \in {<<255, 0, 0>>, <<255, 0, 255>>}}

InitSkin ==
    \E pal \in SkinPalettes :
    \E t \in {BuildTable(PaletteBlock(pal))} :
    \E w \in 1..MaxW, h \in 1..2 :
       \E pixels \in [1..(w * h) -> SkinPix] :
          Loaded(pal, t, LooseEntry(SkinName, EncodedFile(pixels, w, h)), pixels)

SpecSkin == InitSkin /\ [][NextPcx]_vars

(* --- WAL headers -------------------------------------------------------- *)
InitWal ==
    \E w \in (-1)..MaxW, h \in (-1)..2, o \in {-1, 0, MipHeaderSize, MipHeaderSize + 1},
       n \in MipHeaderSize..(MipHeaderSize + 2 * MaxW + 1), more \in {0, 1} :
       \/ more = 0 /\ Loaded(StdPal, StdTable, LooseEntry(WalName, WalFile(MipHdr(w, h, o), n)), <<>>)
       \/ more = 1 /\ Loaded(StdPal, StdTable, TruncatedEntry(WalName, WalFile(MipHdr(w, h, o), n), 1),
                             <<>>)

NextWal == SkipColormap \/ ConvertWal \/ Finish

SpecWal == InitWal /\ [][NextWal]_vars

(* ---------------------------------------------------------------------- *)
(* Flood fill claims (SpecSkin)                                            *)
(* ---------------------------------------------------------------------- *)
(* 0-based buffer indices of the 4-neighbours of index p in a w x h image *)
Neighbours(p, w, h) ==
    LET x == p % w
        y == p \div w
    IN {q \in 0..(w * h - 1) :
          \/ (q = p - 1 /\ x > 0)
          \/ (q = p + 1 /\ x < w - 1)
          \/ (q = p - w /\ y > 0)
          \/ (q = p + w /\ y < h - 1)}

(* the pixels of colour c reachable from the set S through pixels of colour c *)
RECURSIVE Grow(_, _, _, _, _)
Grow(S, pix, c, w, h) ==
    LET N == {q \in 0..(w * h - 1) :
                /\ q \notin S
                /\ pix[q + 1] = c
                /\ \E p \in S : q \in Neighbours(p, w, h)}
    IN IF N = {} THEN S ELSE Grow(S \cup N, pix, c, w, h)

OnBorder(p, w, h) ==
    \/ p % w = 0
    \/ p % w = w - 1
    \/ p \div w = 0
    \/ p \div w = h - 1

BorderRegion(pix, c, w, h) ==
    Grow({p \in 0..(w * h - 1) : pix[p + 1] = c /\ OnBorder(p, w, h)}, pix, c, w, h)

(* C3: when FloodFillSkin does not skip, every pixel that held the fill    *)
(* colour and is connected to the image border through fill-colour pixels  *)
(* ends up neither the fill colour nor 255.                                *)
C3_BorderRegionRepaired ==
    fill.ran =>
        \A p \in BorderRegion(fill.before, fill.fillcolor, fill.width, fill.height) :
            fill.after[p + 1] \notin {fill.fillcolor, Transparent}

(* C10: the filled colour is the lowest index whose table entry is opaque  *)
(* black (R = G = B = 0, alpha 255), and 0 when there is none.             *)
C10_FilledColorIsOpaqueBlack ==
    fill.called =>
        LET black == {i \in 0..(TableSize - 1) :
                        TableAt(d_8to24table, i) = <<0, 0, 0, 255>>}
        IN fill.filledcolor =
              (IF black = {} THEN 0 ELSE CHOOSE i \in black : \A j \in black : i <= j)

(* ---------------------------------------------------------------------- *)
(* PCX decode claims (SpecPcx, SpecRle)                                    *)
(* ---------------------------------------------------------------------- *)
Decoded == last.op = "convertPcx" /\ dec.accepted /\ dec.rawLen > 0

(* C4: for every payload of an accepted header the decode loop writes      *)
(* exactly width*height indices, no run leaves its row or the output       *)
(* buffer, and no read goes past the payload.                              *)
C4_DecodeInBounds ==
    Decoded =>
        /\ dec.nWrites = dec.width * dec.height
        /\ ~dec.rowCross
        /\ ~dec.oobWrite
        /\ ~dec.oobRead

(* C5: an image encoded row by row with the RLE scheme decodes to itself.  *)
C5_RoundTrip ==
    (last.op = "convertPcx" /\ image # <<>>) =>
        /\ Decoded
        /\ dec.out = image
        /\ dec.r = dec.rawLen

(* a 3 x 2 image with a run of three, an escaped single pixel >= 0xC0 and  *)
(* literal pixels came back unchanged                                      *)
C5_Witness ==
    /\ last.op = "convertPcx"
    /\ image = <<5, 5, 5, 200, 130, 5>>
    /\ entries[2].file.body = <<195, 5, 193, 200, 130, 5>>
    /\ dec.out = image

(* C6: convertPcx fails with a format error whenever the inclusive width   *)
(* or height of the header is not below 4096, so every image it goes on to *)
(* decode has both below 4096.                                             *)
C6_DimensionsBelowMax ==
    /\ dec.accepted => (dec.width < MaxDim /\ dec.height < MaxDim)
    /\ (last.op = "convertPcx" /\ last.idx <= Len(entries)) =>
          LET h == entries[last.idx].file.pcx
          IN (\/ h.xmax - h.xmin + 1 >= MaxDim
              \/ h.ymax - h.ymin + 1 >= MaxDim) => (~last.ok /\ last.err = "format")

(* ---------------------------------------------------------------------- *)
(* WAL claim (SpecWal)                                                     *)
(* ---------------------------------------------------------------------- *)
(* C8: convertWal fails with a format error and writes no PNG when         *)
(* offsets[0] <= 0, width <= 0, height <= 0 or                             *)
(* (entry.length - offsets[0]) / height < width; for a header it accepts   *)
(* it reads width*height bytes at offsets[0], all within the entry.        *)
C8_MipValidation ==
    (last.op = "convertWal" /\ wal.hdr) =>
        LET mt == wal.mt
            bad == \/ mt.offsets0 <= 0
                   \/ mt.width <= 0
                   \/ mt.height <= 0
                   \/ CDiv(wal.length - mt.offsets0, mt.height) < mt.width
        IN /\ bad => /\ ~last.ok
                     /\ last.err = "format"
                     /\ ~wal.accepted
                     /\ PngPath(last.name) \notin DOMAIN outfiles
           /\ wal.accepted => /\ wal.from = mt.offsets0
                              /\ wal.count = mt.width * mt.height
                              /\ wal.from >= 1
                              /\ wal.from + wal.count <= wal.length

(* a header was accepted whose base mip ends exactly at the entry's end,   *)
(* and the PNG was written                                                 *)
C8_Witness ==
    /\ last.op = "convertWal"
    /\ last.ok
    /\ wal.accepted
    /\ wal.count >= 4
    /\ wal.from + wal.count = wal.length
    /\ PngPath(last.name) \in DOMAIN outfiles

(* ---------------------------------------------------------------------- *)
(* The flood-fill FIFO (SpecFifo)                                          *)
(* ---------------------------------------------------------------------- *)
(* A skin whose fill-colour region is a binary tree drawn on the grid: a   *)
(* corridor leads from pixel (0,0) to the root, every bar of level k has   *)
(* TreeArms[k] pixels on each side of its middle, bars alternate between   *)
(* horizontal and vertical, and a bar of the next level is centred on each *)
(* end of a bar.  Bars of different branches never touch, so the flood     *)
(* reaches all bars of a level at the same time.                           *)
TreeArms == <<64, 48, 32, 24, 16, 12, 8, 6, 4, 3, 2, 1>>

RECURSIVE SumEverySecond(_, _)
SumEverySecond(s, k) == IF k > Len(s) THEN 0 ELSE s[k] + SumEverySecond(s, k + 2)

TreeCx == SumEverySecond(TreeArms, 1)
TreeCy == SumEverySecond(TreeArms, 2) + 2
TreeWidth == 2 * TreeCx + 1
TreeHeight == 2 * TreeCy - 1

RECURSIVE OnTree(_, _, _, _, _, _)
OnTree(x, y, cx, cy, k, horiz) ==
    IF k > Len(TreeArms) THEN FALSE
    ELSE LET L == TreeArms[k]
         IN IF horiz
            THEN \/ (y = cy /\ x >= cx - L /\ x <= cx + L)
                 \/ OnTree(x, y, IF x < cx THEN cx - L ELSE cx + L, cy, k + 1, FALSE)
            ELSE \/ (x = cx /\ y >= cy - L /\ y <= cy + L)
                 \/ OnTree(x, y, cx, IF y < cy THEN cy - L ELSE cy + L, k + 1, TRUE)

(* fill colour 7 on the corridor and the tree, colour 9 elsewhere *)
TreePixel(x, y) ==
    IF \/ (y = 0 /\ x <= TreeCx)
       \/ (x = TreeCx /\ y <= TreeCy)
       \/ OnTree(x, y, TreeCx, TreeCy, 1, TRUE)
    THEN 7 ELSE 9

TreeSkin ==
    SubSeq([i \in 1..(TreeWidth * TreeHeight) |->
               TreePixel((i - 1) % TreeWidth, (i - 1) \div TreeWidth)],
           1, TreeWidth * TreeHeight)

(* a PCX file whose payload is the pixels themselves: a byte below 0xC0 is *)
(* one literal pixel to the decode loop                                    *)
LiteralFile(pixels, w, h) == PcxFile(PcxHdr(0, 0, w - 1, h - 1), pixels, NoPalette)

(* main inside convertPcx at line 557: the entry's header was accepted and *)
(* the decode loop has turned its payload into the buffer pixels           *)
AtFloodFill(pal, table, file, pixels, w, h, img) ==
    /\ PcxHeaderOk(file.pcx)
    /\ entries = <<Entry(ColormapName, 1, 0, ColormapFile(pal).avail, ColormapFile(pal)),
                   LooseEntry(SkinName, file)>>
    /\ d_8to24table = table
    /\ pc = "convertPcx"
    /\ convert = TRUE
    /\ dirPos = 2
    /\ idx = 2
    /\ outfiles = PutFile(<<>>, PalettePath, "complete", [i \in 1..PaletteSize |-> 0])
    /\ palWrites = 1
    /\ convCalls = 1
    /\ last = [op |-> "loadPalette", idx |-> 1, name |-> ColormapName, ok |-> TRUE,
               err |-> "none"]
    /\ dec = [accepted |-> TRUE, width |-> w, height |-> h, out |-> pixels,
              r |-> Len(file.body), rawLen |-> Len(file.body), nWrites |-> w * h,
              rowCross |-> FALSE, oobWrite |-> FALSE, oobRead |-> FALSE]
    /\ fill = NoFill
    /\ wal = NoWal
    /\ image = img

InitFifo ==
    \/ \E w \in 1..MaxW, h \in 1..2 :
          \E pixels \in [1..(w * h) -> SkinPix] :
             AtFloodFill(StdPal, StdTable, EncodedFile(pixels, w, h), pixels, w, h, pixels)
    \/ \E pixels \in {TreeSkin} :
          AtFloodFill(StdPal, StdTable, LiteralFile(pixels, TreeWidth, TreeHeight),
                      pixels, TreeWidth, TreeHeight, <<>>)

(* convertPcx from line 557 on: FloodFillSkin on a skin, colorize, writePng *)
ConvertPcxFill ==
    /\ pc = "convertPcx"
    /\ \E f \in {pcxFill(dec, IsSkinName(entries[idx].name), d_8to24table)} :
       \E io \in {"ok", "fopen", "alloc", "pngerr"} :
       \E r \in {pcxWrite(outfiles, entries[idx], dec, f, d_8to24table, io)} :
          /\ fill' = [f EXCEPT !.after = IF f.called THEN f.after ELSE <<>>]
          /\ outfiles' = r.files
          /\ pc' = IF r.ok THEN "loop" ELSE "failed"
          /\ idx' = IF r.ok THEN idx + 1 ELSE idx
          /\ last' = [op |-> "convertPcx", idx |-> idx, name |-> entries[idx].name,
                      ok |-> r.ok, err |-> r.err]
    /\ UNCHANGED <<image, entries, d_8to24table, convert, dirPos, palWrites, convCalls,
                   dec, wal>>

NextFifo == ConvertPcxFill \/ Finish

SpecFifo == InitFifo /\ [][NextFifo]_vars

(* C11: during FloodFillSkin the number of coordinates enqueued and not    *)
(* yet dequeued stays below the FIFO's capacity, for every image the       *)
(* decoder accepts.                                                        *)
C11_FifoBelowCapacity ==
    fill.called => fill.maxPending < FLOODFILL_FIFO_SIZE

====
